---- MODULE Spec2Model ----
(***************************************************************************)
(* A model of libchip8 (src/src/lib.rs): the Chip8 interpreter struct, its *)
(* run loop (setup, load, sched, eval, next), the 60 Hz timer tick, the    *)
(* key wait, and every opcode of eval, driven by a Hardware adapter whose  *)
(* answers (shutdown, clock, keys, random bytes) are drawn from small sets.*)
(* A Rust panic (index out of bounds, unimplemented!, panic!, arithmetic   *)
(* overflow under overflow checks) ends the run at at = "panic" with the   *)
(* kind of panic in fault.                                                 *)
(***************************************************************************)
EXTENDS Integers, Sequences, FiniteSets, TLC

(* ------------------------------------------------------------------ *)
(* Program constants                                                   *)
(* ------------------------------------------------------------------ *)
REGS == 16
MEMS == 4096
STACKS == 16
DISPS == <<64, 32>>
ENTRY == 512
ROMBASE == 512
\* 1000_000_000 / 60 in u64 arithmetic: the tick threshold of sched, in ns.
TICK_NS == 1000000000 \div 60
\* b' ', what waitkey returns when the run was stopped.
SPACE == 32

CHARBUF ==
  << \hf0, \h90, \h90, \h90, \hf0,
     \h20, \h60, \h20, \h20, \h70,
     \hf0, \h10, \hf0, \h80, \hf0,
     \hf0, \h10, \hf0, \h10, \hf0,
     \h90, \h90, \hf0, \h10, \h10,
     \hf0, \h80, \hf0, \h10, \hf0,
     \hf0, \h80, \hf0, \h90, \hf0,
     \hf0, \h10, \h20, \h40, \h40,
     \hf0, \h90, \hf0, \h90, \hf0,
     \hf0, \h90, \hf0, \h10, \hf0,
     \hf0, \h90, \hf0, \h90, \h90,
     \he0, \h90, \he0, \h90, \he0,
     \hf0, \h80, \h80, \h80, \hf0,
     \he0, \h90, \h90, \h90, \he0,
     \hf0, \h80, \hf0, \h80, \hf0,
     \hf0, \h80, \hf0, \h80, \h80 >>

(* ------------------------------------------------------------------ *)
(* Bounds of the model                                                 *)
(* ------------------------------------------------------------------ *)
\* The adapter's clock stops advancing once MaxTicks periods of 20 ms have
\* passed: at most MaxTicks timer ticks happen in a run.
MaxTicks == 4
MaxClock == MaxTicks * 20000000
\* The deepest recursion of the nested-call programs (CallRom).
MaxDepth == 17

(* ------------------------------------------------------------------ *)
(* Fixed-width arithmetic                                              *)
(* ------------------------------------------------------------------ *)
U8(n) == n % 256
U16(n) == n % 65536

RECURSIVE BitAnd(_, _)
BitAnd(a, b) ==
  IF a = 0 \/ b = 0 THEN 0
  ELSE (a % 2) * (b % 2) + 2 * BitAnd(a \div 2, b \div 2)

RECURSIVE BitOr(_, _)
BitOr(a, b) ==
  IF a = 0 THEN b
  ELSE IF b = 0 THEN a
  ELSE (IF a % 2 = 1 \/ b % 2 = 1 THEN 1 ELSE 0) + 2 * BitOr(a \div 2, b \div 2)

RECURSIVE BitXor(_, _)
BitXor(a, b) ==
  IF a = 0 THEN b
  ELSE IF b = 0 THEN a
  ELSE ((a + b) % 2) + 2 * BitXor(a \div 2, b \div 2)

(* ------------------------------------------------------------------ *)
(* State: the fields of struct Chip8, the position of run(), the ROM   *)
(* passed to run() and the build's overflow checking.  open_calls and   *)
(* last_draw are history variables: the addresses of the CALLs executed *)
(* and not yet returned from, oldest first; and, when the instruction   *)
(* executed last was a DRW, its word and the lit pixels before it.      *)
(* ------------------------------------------------------------------ *)
VARIABLES v, i, dt, st, pc, sp, mem, stack, time, running, hw,
          at, fault, rom, overflow_checks, open_calls, last_draw

vars == <<v, i, dt, st, pc, sp, mem, stack, time, running, hw,
          at, fault, rom, overflow_checks, open_calls, last_draw>>

\* The interpreter as one record, the `self` the methods below transform.
Self ==
  [v |-> v, i |-> i, dt |-> dt, st |-> st, pc |-> pc, sp |-> sp, mem |-> mem,
   stack |-> stack, time |-> time, running |-> running, hw |-> hw,
   at |-> at, fault |-> fault, overflow_checks |-> overflow_checks]

\* A Rust panic: the run ends here, nothing after it in the method executes.
Panic(c, why) == [c EXCEPT !.at = "panic", !.fault = why]

Panicked(c) == c.at = "panic"

(* ------------------------------------------------------------------ *)
(* The Hardware adapter: a test double that keeps the screen, the clock *)
(* and a log of the calls the engine made in the current step.          *)
(* ------------------------------------------------------------------ *)
hw_log(c, call) == [c EXCEPT !.hw.calls = Append(@, call)]

hw_vram_setsize(c, size) ==
  [hw_log(c, <<"vram_setsize", size[1], size[2]>>)
     EXCEPT !.hw.vramsz = size, !.hw.vram = {}, !.hw.nsetsize = @ + 1]

hw_vram_size(c) == hw_log(c, <<"vram_size">>)

hw_vram_get(c, x, y) == hw_log(c, <<"vram_get", x, y>>)

hw_vram_set(c, x, y, d) ==
  [hw_log(c, <<"vram_set", x, y, d>>)
     EXCEPT !.hw.vram = IF d THEN @ \cup {<<x, y>>} ELSE @ \ {<<x, y>>}]

\* One call of clock(): the clock has advanced by d ns since the last call.
hw_clock(c, d) ==
  [hw_log(c, <<"clock", c.hw.clock + d>>) EXCEPT !.hw.clock = @ + d]

hw_beep(c) == hw_log(c, <<"beep">>)

hw_sched(c, stop) == hw_log(c, <<"sched", stop>>)

\* One call of key(key); down is the adapter's answer.
hw_key(c, key, down) == hw_log(c, <<"key", key, down>>)

hw_rand(c, r) == hw_log(c, <<"rand", r>>)

(* ------------------------------------------------------------------ *)
(* Chip8 methods                                                       *)
(* ------------------------------------------------------------------ *)
\* Mutant of setup: the adapter is never asked to size the screen.
setup_without_setsize(c) ==
  LET c1 == [c EXCEPT !.pc = ENTRY]
      c3 == [c1 EXCEPT !.mem = [a \in 0..(MEMS - 1) |->
                                  IF a < Len(CHARBUF) THEN CHARBUF[a + 1]
                                  ELSE c1.mem[a]]]
  IN  [c3 EXCEPT !.running = TRUE]

setup(c) ==
  LET c1 == [c EXCEPT !.pc = ENTRY]
      c2 == hw_vram_setsize(c1, DISPS)
      c3 == [c2 EXCEPT !.mem = [a \in 0..(MEMS - 1) |->
                                  IF a < Len(CHARBUF) THEN CHARBUF[a + 1]
                                  ELSE c2.mem[a]]]
  IN  [c3 EXCEPT !.running = TRUE]

\* Mutant of shutdown: the request to stop is dropped.
shutdown_ignored(c) == c

shutdown(c) == [c EXCEPT !.running = FALSE]

\* Mutant of load: the ROM is copied to offset 0 instead of ROMBASE.
load_at_zero(c, r) ==
  IF Len(r) > MEMS THEN Panic(c, "rom_range")
  ELSE [c EXCEPT !.mem = [a \in 0..(MEMS - 1) |->
                            IF a < Len(r) THEN r[a + 1] ELSE c.mem[a]]]

load(c, r) ==
  IF ROMBASE + Len(r) > MEMS THEN Panic(c, "rom_range")
  ELSE [c EXCEPT !.mem = [a \in 0..(MEMS - 1) |->
                            IF a >= ROMBASE /\ a < ROMBASE + Len(r)
                            THEN r[a - ROMBASE + 1] ELSE c.mem[a]]]

\* Mutant of push: sp is incremented before the store, while pop still
\* decrements before its read.
push_increment_first(c, item) ==
  LET nsp == U8(c.sp + 1)
  IN  IF nsp >= STACKS THEN Panic(c, "stack_index")
      ELSE [c EXCEPT !.stack[nsp] = item, !.sp = nsp]

push(c, item) ==
  IF c.sp >= STACKS THEN Panic(c, "stack_index")
  ELSE [c EXCEPT !.stack[c.sp] = item, !.sp = U8(c.sp + 1)]

\* pop moves sp down (with the bounds check of the read that follows it);
\* popped is the item it returns, self.stack[self.sp].
pop(c) ==
  LET nsp == U8(c.sp - 1)
  IN  IF nsp >= STACKS THEN [Panic(c, "stack_index") EXCEPT !.sp = nsp]
      ELSE [c EXCEPT !.sp = nsp]

popped(c) == c.stack[c.sp]

jump(c, target) == [c EXCEPT !.pc = target]

next(c) == jump(c, U16(c.pc + 2))

\* Mutant of tick: beep is called on every decrement of ST.
tick_beep_on_every_decrement(c) ==
  LET c1 == IF c.dt > 0 THEN [c EXCEPT !.dt = c.dt - 1] ELSE c
  IN  IF c1.st > 0
      THEN hw_beep([c1 EXCEPT !.st = c1.st - 1])
      ELSE c1

tick(c) ==
  LET c1 == IF c.dt > 0 THEN [c EXCEPT !.dt = c.dt - 1] ELSE c
  IN  IF c1.st > 0
      THEN LET c2 == [c1 EXCEPT !.st = c1.st - 1]
           IN  IF c2.st = 0 THEN hw_beep(c2) ELSE c2
      ELSE c1

\* Mutant of tick_due: >= in place of >.
tick_due_inclusive(now, t) == now - t >= TICK_NS

\* Mutant of tick_due: a period of 1/30 s.
tick_due_30hz(now, t) == now - t > 1000000000 \div 30

\* The test of sched: clock().wrapping_sub(t) > 1000_000_000 / 60.  The
\* adapter's clock never runs backwards, so the u64 subtraction never wraps.
tick_due(now, t) == now - t > TICK_NS

\* stop: what the adapter's sched() returns; d: how far the clock has moved
\* since its last reading; j: how far it moves between the two readings of a
\* step that ticks.
sched(c, stop, d, j) ==
  LET c1 == hw_sched(c, stop)
      c2 == IF stop THEN shutdown(c1) ELSE c1
      c3 == hw_clock(c2, d)
  IN  IF c2.time # <<>>
      THEN IF tick_due(c3.hw.clock, c2.time[1])
           THEN LET c4 == hw_clock(tick(c3), j)
                IN  [c4 EXCEPT !.time = <<c4.hw.clock>>]
           ELSE c3
      ELSE [c3 EXCEPT !.time = <<c3.hw.clock>>]

\* Mutant of poll_keys: the scan covers all 16 keys, `for i in 0..0x10`.
RECURSIVE poll_keys_all16(_, _, _)
poll_keys_all16(c, pressed, k) ==
  IF k = \h10 THEN [c |-> c, found |-> FALSE, key |-> 0]
  ELSE LET c1 == hw_key(c, k, k \in pressed)
       IN  IF k \in pressed THEN [c |-> c1, found |-> TRUE, key |-> k]
           ELSE poll_keys_all16(c1, pressed, k + 1)

\* One pass of the key scan of waitkey, `for i in 0..0xf`, from key k on:
\* found tells whether a key was reported pressed, key which one.
RECURSIVE poll_keys(_, _, _)
poll_keys(c, pressed, k) ==
  IF k = \hf THEN [c |-> c, found |-> FALSE, key |-> 0]
  ELSE LET c1 == hw_key(c, k, k \in pressed)
       IN  IF k \in pressed THEN [c |-> c1, found |-> TRUE, key |-> k]
           ELSE poll_keys(c1, pressed, k + 1)

\* Mutant of waitkey: a stopped wait returns 0.
waitkey_sentinel_zero(c, x, stop, d, j, pressed) ==
  IF ~c.running THEN [c EXCEPT !.v[x] = 0, !.at = "next"]
  ELSE LET c1 == sched(c, stop, d, j)
           r == poll_keys(c1, pressed, 0)
       IN  IF r.found THEN [r.c EXCEPT !.v[x] = r.key, !.at = "next"]
           ELSE r.c

\* waitkey from its loop test on: one iteration of `while self.running`, or,
\* when the run was stopped, the return of b' '.  The caller stores the
\* returned value in Vx.
waitkey(c, x, stop, d, j, pressed) ==
  IF ~c.running THEN [c EXCEPT !.v[x] = SPACE, !.at = "next"]
  ELSE LET c1 == sched(c, stop, d, j)
           r == poll_keys(c1, pressed, 0)
       IN  IF r.found THEN [r.c EXCEPT !.v[x] = r.key, !.at = "next"]
           ELSE r.c

(* ------------------------------------------------------------------ *)
(* eval: one operator per arm of the match                             *)
(* ------------------------------------------------------------------ *)
\* self.mem[a] = b, with Rust's bounds check.
mem_store(c, a, b) ==
  IF Panicked(c) THEN c
  ELSE IF a >= MEMS THEN Panic(c, "mem_index")
  ELSE [c EXCEPT !.mem[a] = b]

set_v(c, x, val) == [c EXCEPT !.v[x] = val]

op_cls(c) ==
  LET c1 == hw_vram_size(c)
      w == c1.hw.vramsz[1]
      h == c1.hw.vramsz[2]
      sets == [k \in 1..(w * h) |->
                 <<"vram_set", (k - 1) \div h, (k - 1) % h, FALSE>>]
  IN  [c1 EXCEPT !.hw.calls = @ \o sets, !.hw.vram = {}]

op_ret(c) ==
  LET c1 == pop(c)
  IN  IF Panicked(c1) THEN c1 ELSE jump(c1, popped(c1))

op_sys(c) == Panic(c, "unimplemented")

\* Mutant of op_jp: the jump does not allow for the advance that follows.
op_jp_no_rewind(c, nnn) == jump(c, nnn)

op_jp(c, nnn) == jump(c, U16(nnn - 2))

op_call(c, nnn) ==
  LET c1 == push(c, c.pc)
  IN  IF Panicked(c1) THEN c1 ELSE jump(c1, U16(nnn - 2))

op_se_kk(c, x, kk) == IF c.v[x] = kk THEN next(c) ELSE c

op_sne_kk(c, x, kk) == IF c.v[x] # kk THEN next(c) ELSE c

op_se_xy(c, x, y) == IF c.v[x] = c.v[y] THEN next(c) ELSE c

\* Mutant of op_ld_kk: the body of the neighbouring arm, ADD Vx, kk.
op_ld_kk_adds(c, x, kk) == set_v(c, x, U8(c.v[x] + kk))

op_ld_kk(c, x, kk) == set_v(c, x, kk)

op_add_kk(c, x, kk) == set_v(c, x, U8(c.v[x] + kk))

op_ld_xy(c, x, y) == set_v(c, x, c.v[y])

op_or(c, x, y) == set_v(c, x, BitOr(c.v[x], c.v[y]))

op_and(c, x, y) == set_v(c, x, BitAnd(c.v[x], c.v[y]))

op_xor(c, x, y) == set_v(c, x, BitXor(c.v[x], c.v[y]))

op_add_xy(c, x, y) ==
  LET sum == c.v[x] + c.v[y]
  IN  set_v(set_v(c, x, U8(sum)), \hf, IF sum > 255 THEN 1 ELSE 0)

\* Mutant of op_sub_xy: VF is set only when Vx is strictly above Vy.
op_sub_xy_strict(c, x, y) ==
  LET a == c.v[x]
      b == c.v[y]
  IN  set_v(set_v(c, x, U8(a - b)), \hf, IF a > b THEN 1 ELSE 0)

op_sub_xy(c, x, y) ==
  LET a == c.v[x]
      b == c.v[y]
  IN  set_v(set_v(c, x, U8(a - b)), \hf, IF a < b THEN 0 ELSE 1)

op_shr(c, x) ==
  LET c1 == set_v(c, \hf, c.v[x] % 2)
  IN  set_v(c1, x, c1.v[x] \div 2)

op_subn(c, x, y) ==
  LET a == c.v[y]
      b == c.v[x]
  IN  set_v(set_v(c, x, U8(a - b)), \hf, IF a < b THEN 0 ELSE 1)

op_shl(c, x) ==
  LET c1 == set_v(c, \hf, BitAnd(c.v[x], \h80) \div 128)
  IN  set_v(c1, x, U8(c1.v[x] * 2))

op_sne_xy(c, x, y) == IF c.v[x] # c.v[y] THEN next(c) ELSE c

op_ld_i(c, nnn) == [c EXCEPT !.i = nnn]

op_jp_v0(c, nnn) == jump(c, U16(U16(nnn + c.v[0]) - 2))

op_rnd(c, x, kk, r) == set_v(hw_rand(c, r), x, BitAnd(r, kk))

\* Mutant of drw_bits: the column is not wrapped at the screen's width.
RECURSIVE drw_bits_unwrapped(_, _, _, _, _, _)
drw_bits_unwrapped(c, b, vramy, basex, w, x) ==
  IF x = 8 THEN c
  ELSE LET vramx == x + basex
           src == BitAnd(b, 2 ^ (7 - x)) > 0
           c1 == hw_vram_get(c, vramx, vramy)
           dst == <<vramx, vramy>> \in c.hw.vram
           c2 == set_v(c1, \hf, BitOr(c1.v[\hf], IF src /\ dst THEN 1 ELSE 0))
           c3 == hw_vram_set(c2, vramx, vramy, src # dst)
       IN  drw_bits_unwrapped(c3, b, vramy, basex, w, x + 1)

\* Mutant of drw_bits: the sprite is or-ed onto the screen.
RECURSIVE drw_bits_or(_, _, _, _, _, _)
drw_bits_or(c, b, vramy, basex, w, x) ==
  IF x = 8 THEN c
  ELSE LET vramx == (x + basex) % w
           src == BitAnd(b, 2 ^ (7 - x)) > 0
           c1 == hw_vram_get(c, vramx, vramy)
           dst == <<vramx, vramy>> \in c.hw.vram
           c2 == set_v(c1, \hf, BitOr(c1.v[\hf], IF src /\ dst THEN 1 ELSE 0))
           c3 == hw_vram_set(c2, vramx, vramy, src \/ dst)
       IN  drw_bits_or(c3, b, vramy, basex, w, x + 1)

\* The inner loop of DRW, `for x in 0..8`, from column x on.
RECURSIVE drw_bits(_, _, _, _, _, _)
drw_bits(c, b, vramy, basex, w, x) ==
  IF x = 8 THEN c
  ELSE LET vramx == (x + basex) % w
           src == BitAnd(b, 2 ^ (7 - x)) > 0
           c1 == hw_vram_get(c, vramx, vramy)
           dst == <<vramx, vramy>> \in c.hw.vram
           c2 == set_v(c1, \hf, BitOr(c1.v[\hf], IF src /\ dst THEN 1 ELSE 0))
           c3 == hw_vram_set(c2, vramx, vramy, src # dst)
       IN  drw_bits(c3, b, vramy, basex, w, x + 1)

\* The outer loop of DRW, `for y in 0..n`, from row y on.
RECURSIVE drw_rows(_, _, _, _, _, _, _)
drw_rows(c, n, basex, basey, w, h, y) ==
  IF y = n THEN c
  ELSE IF c.i + y >= MEMS THEN Panic(c, "mem_index")
  ELSE drw_rows(drw_bits(c, c.mem[c.i + y], (y + basey) % h, basex, w, 0),
                n, basex, basey, w, h, y + 1)

op_drw(c, x, y, n) ==
  LET basex == c.v[x]
      basey == c.v[y]
      c1 == hw_vram_size(c)
      c2 == set_v(c1, \hf, 0)
  IN  drw_rows(c2, n, basex, basey, c1.hw.vramsz[1], c1.hw.vramsz[2], 0)

op_skp(c, x, pressed) ==
  LET c1 == hw_key(c, c.v[x], c.v[x] \in pressed)
  IN  IF c.v[x] \in pressed THEN next(c1) ELSE c1

op_sknp(c, x, pressed) ==
  LET c1 == hw_key(c, c.v[x], c.v[x] \in pressed)
  IN  IF c.v[x] \notin pressed THEN next(c1) ELSE c1

op_ld_vx_dt(c, x) == set_v(c, x, c.dt)

\* self.v[x] = self.waitkey(): eval enters waitkey, whose iterations follow.
op_ld_vx_k(c) == [c EXCEPT !.at = "waitkey"]

op_ld_dt(c, x) == [c EXCEPT !.dt = c.v[x]]

op_ld_st(c, x) == [c EXCEPT !.st = c.v[x]]

op_add_i(c, x) == [c EXCEPT !.i = U16(c.i + c.v[x])]

\* self.v[x] * 5 is a u8 multiplication: it panics when the build checks
\* overflow (debug) and wraps when it does not (release).
op_ld_f(c, x) ==
  IF c.v[x] * 5 > 255 /\ c.overflow_checks THEN Panic(c, "mul_overflow")
  ELSE [c EXCEPT !.i = U8(c.v[x] * 5)]

op_ld_b(c, x) ==
  LET bcd == c.v[x]
      c1 == mem_store(c, c.i, (bcd \div 100) % 10)
      c2 == mem_store(c1, c.i + 1, (bcd \div 10) % 10)
  IN  mem_store(c2, c.i + 2, bcd % 10)

\* The loop of LD [I], Vx, `for i in 0..(x + 1)`, from register k on.
RECURSIVE store_regs(_, _, _)
store_regs(c, x, k) ==
  IF k = x + 1 \/ Panicked(c) THEN c
  ELSE store_regs(mem_store(c, c.i + k, c.v[k]), x, k + 1)

op_ld_i_vx(c, x) == store_regs(c, x, 0)

\* The loop of LD Vx, [I], `for i in 0..(x + 1)`, from register k on.
RECURSIVE load_regs(_, _, _)
load_regs(c, x, k) ==
  IF k = x + 1 THEN c
  ELSE IF c.i + k >= MEMS THEN Panic(c, "mem_index")
  ELSE load_regs(set_v(c, k, c.mem[c.i + k]), x, k + 1)

op_ld_vx_i(c, x) == load_regs(c, x, 0)

\* Mutant of op_invalid: an unknown instruction is skipped.
op_invalid_skipped(c) == c

op_invalid(c) == Panic(c, "invalid_op")

(* ------------------------------------------------------------------ *)
(* eval: fetch, decode, dispatch                                       *)
(* ------------------------------------------------------------------ *)
\* The instruction word at address a: h << 8 | l.
inst_at(m, a) == m[a] * 256 + m[a + 1]

nib3(inst) == (inst \div 4096) % 16
nib2(inst) == (inst \div 256) % 16
nib1(inst) == (inst \div 16) % 16
nib0(inst) == inst % 16

\* The arm of the match that an instruction word selects.
decode(inst) ==
  LET a == nib3(inst)
      b == nib2(inst)
      y == nib1(inst)
      n == nib0(inst)
  IN  CASE a = 0 /\ b = 0 /\ y = \he /\ n = 0 -> "CLS"
        [] a = 0 /\ b = 0 /\ y = \he /\ n = \he -> "RET"
        [] a = 0 /\ ~(b = 0 /\ y = \he /\ n \in {0, \he}) -> "SYS"
        [] a = 1 -> "JP"
        [] a = 2 -> "CALL"
        [] a = 3 -> "SE_KK"
        [] a = 4 -> "SNE_KK"
        [] a = 5 /\ n = 0 -> "SE_XY"
        [] a = 6 -> "LD_KK"
        [] a = 7 -> "ADD_KK"
        [] a = 8 /\ n = 0 -> "LD_XY"
        [] a = 8 /\ n = 1 -> "OR"
        [] a = 8 /\ n = 2 -> "AND"
        [] a = 8 /\ n = 3 -> "XOR"
        [] a = 8 /\ n = 4 -> "ADD_XY"
        [] a = 8 /\ n = 5 -> "SUB"
        [] a = 8 /\ n = 6 -> "SHR"
        [] a = 8 /\ n = 7 -> "SUBN"
        [] a = 8 /\ n = \he -> "SHL"
        [] a = 9 /\ n = 0 -> "SNE_XY"
        [] a = \ha -> "LD_I"
        [] a = \hb -> "JP_V0"
        [] a = \hc -> "RND"
        [] a = \hd -> "DRW"
        [] a = \he /\ y = 9 /\ n = \he -> "SKP"
        [] a = \he /\ y = \ha /\ n = 1 -> "SKNP"
        [] a = \hf /\ y = 0 /\ n = 7 -> "LD_VX_DT"
        [] a = \hf /\ y = 0 /\ n = \ha -> "LD_VX_K"
        [] a = \hf /\ y = 1 /\ n = 5 -> "LD_DT"
        [] a = \hf /\ y = 1 /\ n = 8 -> "LD_ST"
        [] a = \hf /\ y = 1 /\ n = \he -> "ADD_I"
        [] a = \hf /\ y = 2 /\ n = 9 -> "LD_F"
        [] a = \hf /\ y = 3 /\ n = 3 -> "LD_B"
        [] a = \hf /\ y = 5 /\ n = 5 -> "LD_I_VX"
        [] a = \hf /\ y = 6 /\ n = 5 -> "LD_VX_I"
        [] OTHER -> "INVALID"

\* The body of the selected arm.  r: the byte the adapter's rand() returns;
\* pressed: the keys the adapter reports pressed.
exec(c, inst, r, pressed) ==
  LET nnn == inst % 4096
      n == nib0(inst)
      x == nib2(inst)
      y == nib1(inst)
      kk == inst % 256
      op == decode(inst)
  IN  CASE op = "CLS" -> op_cls(c)
        [] op = "RET" -> op_ret(c)
        [] op = "SYS" -> op_sys(c)
        [] op = "JP" -> op_jp(c, nnn)
        [] op = "CALL" -> op_call(c, nnn)
        [] op = "SE_KK" -> op_se_kk(c, x, kk)
        [] op = "SNE_KK" -> op_sne_kk(c, x, kk)
        [] op = "SE_XY" -> op_se_xy(c, x, y)
        [] op = "LD_KK" -> op_ld_kk(c, x, kk)
        [] op = "ADD_KK" -> op_add_kk(c, x, kk)
        [] op = "LD_XY" -> op_ld_xy(c, x, y)
        [] op = "OR" -> op_or(c, x, y)
        [] op = "AND" -> op_and(c, x, y)
        [] op = "XOR" -> op_xor(c, x, y)
        [] op = "ADD_XY" -> op_add_xy(c, x, y)
        [] op = "SUB" -> op_sub_xy(c, x, y)
        [] op = "SHR" -> op_shr(c, x)
        [] op = "SUBN" -> op_subn(c, x, y)
        [] op = "SHL" -> op_shl(c, x)
        [] op = "SNE_XY" -> op_sne_xy(c, x, y)
        [] op = "LD_I" -> op_ld_i(c, nnn)
        [] op = "JP_V0" -> op_jp_v0(c, nnn)
        [] op = "RND" -> op_rnd(c, x, kk, r)
        [] op = "DRW" -> op_drw(c, x, y, n)
        [] op = "SKP" -> op_skp(c, x, pressed)
        [] op = "SKNP" -> op_sknp(c, x, pressed)
        [] op = "LD_VX_DT" -> op_ld_vx_dt(c, x)
        [] op = "LD_VX_K" -> op_ld_vx_k(c)
        [] op = "LD_DT" -> op_ld_dt(c, x)
        [] op = "LD_ST" -> op_ld_st(c, x)
        [] op = "ADD_I" -> op_add_i(c, x)
        [] op = "LD_F" -> op_ld_f(c, x)
        [] op = "LD_B" -> op_ld_b(c, x)
        [] op = "LD_I_VX" -> op_ld_i_vx(c, x)
        [] op = "LD_VX_I" -> op_ld_vx_i(c, x)
        [] OTHER -> op_invalid(c)

\* The two reads of the fetch, self.mem[self.pc] and self.mem[self.pc + 1],
\* with Rust's bounds checks (pc + 1 cannot overflow u16 before the first
\* read has panicked).
fetch_ok(c) == c.pc < MEMS /\ c.pc + 1 < MEMS

eval(c, r, pressed) ==
  IF ~fetch_ok(c) THEN Panic(c, "mem_index")
  ELSE exec(c, inst_at(c.mem, c.pc), r, pressed)

(* ------------------------------------------------------------------ *)
(* Inputs: the ROM passed to run() and the adapter passed to new()     *)
(* ------------------------------------------------------------------ *)
\* A ROM image is a sequence of bytes; programs are written as 16-bit
\* big-endian instruction words.
Bytes(ws) ==
  [k \in 1..(2 * Len(ws)) |->
     IF k % 2 = 1 THEN ws[(k + 1) \div 2] \div 256 ELSE ws[k \div 2] % 256]

\* d nested calls of the routine at 516, then d returns, then a loop at 514:
\*   512 CALL 516   514 JP 514   516 ADD V0,1   518 SE V0,d   520 CALL 516
\*   522 RET
CallRom(d) == << \h2204, \h1202, \h7001, \h3000 + d, \h2204, \h00ee >>

CallRoms == { CallRom(d) : d \in 1..MaxDepth }

\* Programs that run under the adapter with the lively clock.
TimerRoms ==
  { << \h6002, \hf015, \hf018, \h1206 >>,
    << \h6001, \hf018, \hf118, \hf207, \h1206 >>,
    << \hf30a, \hf318, \h1200 >> }

\* Programs that leave the memory, the stack or the opcode table.
FaultRoms ==
  { << >>,
    << \h2200 >>,
    << \h00ee >>,
    << \h1fff >>,
    << \h1ffe >>,
    << \h60ff, \hbfff >>,
    << \hb000 >>,
    << \h1000 >>,
    << \h1001 >>,
    << \hafff, \hf033 >>,
    << \haffd, \hf033, \h1204 >>,
    << \haffe, \hf155 >>,
    << \haffe, \hf165 >>,
    << \hafff, \hd011, \hd012 >>,
    << \hafff, \h6002, \hf01e, \hd011 >>,
    << \h5011 >>,
    << \h6a05, \h8ab8 >>,
    << \h9001 >>,
    << \h6101, \hf118, \he100 >>,
    << \hf000 >>,
    << \h0123 >>,
    << \h00e1 >>,
    << \h6a05, \ha123, \h00e0, \h00fe >> }

\* Programs that store through I, draw, skip and read keys.
StoreRoms ==
  { << \h6a05, \h1200 >>,
    << \hf018, \hf015, \h1204 >>,
    << \hf033, \h1202 >>,
    << \h60aa, \hf055, \hf065, \h1206 >>,
    << \h60ff, \ha04e, \hf033, \h1206 >>,
    << \h61ff, \ha04f, \hf155, \h1206 >>,
    << \h60ff, \ha300, \hf033, \hf265, \h1208 >>,
    << \ha000, \hd015, \hd015, \h00e0, \h1208 >>,
    << \h603e, \h611e, \ha005, \hd015, \h1208 >>,
    << \hc0ff, \h3000, \h1200, \h1206 >>,
    << \h6003, \he09e, \he0a1, \h1200 >>,
    << \h6034, \hf029, \h6005, \hf029, \h1208 >>,
    << \h6002, \hf015, \hf30a, \h1206 >>,
    << \h60ff, \h6101, \h8014, \h8015, \h8016, \h801e, \h8017, \h1200 >>,
    << \h60f0, \h613c, \h8011, \h8012, \h8013, \h8100, \h70ff, \h4000,
       \h5010, \h9010, \h120e >> }

Roms == CallRoms \cup TimerRoms \cup FaultRoms \cup StoreRoms

KeySets == { {}, {\hf}, {3, 9}, {\he, \hf}, {0, \hf} }

\* An adapter whose clock moves by anything from nothing to more than two
\* periods between two steps.
LiveHw ==
  [deltas |-> {0, 16666666, 16666667, 40000000}, jitters |-> {0},
   stops |-> BOOLEAN, keysets |-> {{}, {3, 9}}, rands |-> {0, \ha5, \hff}]

\* An adapter whose clock also moves between the two readings of one step.
JitterHw ==
  [deltas |-> {16666667}, jitters |-> {0, 1},
   stops |-> BOOLEAN, keysets |-> {{}, {3, 9}}, rands |-> {0, \ha5, \hff}]

\* An adapter whose clock moves by 20 ms between two steps.
SteadyHw ==
  [deltas |-> {20000000}, jitters |-> {0},
   stops |-> BOOLEAN, keysets |-> KeySets, rands |-> {0, \ha5, \hff}]

\* Simulated 60 Hz clocks: each step moves the clock by one period, to the
\* nanosecond below 1/60 s (1_000_000_000 / 60 in integer arithmetic) or to
\* the nanosecond above it.
SimFloorHw ==
  [deltas |-> {TICK_NS}, jitters |-> {0},
   stops |-> BOOLEAN, keysets |-> KeySets, rands |-> {0, \ha5, \hff}]

SimCeilHw ==
  [deltas |-> {TICK_NS + 1}, jitters |-> {0},
   stops |-> BOOLEAN, keysets |-> KeySets, rands |-> {0, \ha5, \hff}]

\* The runs the model explores: a program and the adapter it runs on.
Scenarios ==
  { <<Bytes(ws), h>> : ws \in TimerRoms, h \in {LiveHw, JitterHw, SimFloorHw, SimCeilHw} }
    \cup { <<Bytes(ws), SteadyHw>> : ws \in Roms }

\* Programs that load their operands and then execute one instruction (or
\* the same instruction several times); what follows them in memory is 0000.
JumpTargets == {0, 1, 2, \h1ff, \h200, \h202, \h204, \hffe, \hfff}

JumpRoms ==
  { << op + nnn >> : op \in {\h1000, \h2000}, nnn \in JumpTargets }

SkipRoms ==
  { << \h6000 + a, \h6107, op >> :
      a \in {0, 7}, op \in {\h3007, \h4007, \h5010, \h9010} }
    \cup { << \h6003, op, \h1206, \h1206 >> : op \in {\he09e, \he0a1} }

AluRoms ==
  { << \h6000 + 256 * x + a, \h6000 + 256 * y + b, \h8000 + 256 * x + 16 * y + o >> :
      x \in {0, 1, \hf}, y \in {0, 1, \hf}, a \in {0, 1, 128, 255},
      b \in {0, 1, 128, 255}, o \in {4, 5} }

FontRoms ==
  { << \h6000 + a, \hf029 >> : a \in {0, 1, 15, 16, 51, 52, 255} }

IndexRoms ==
  { << \ha000 + n, \h6000 + a, \hf01e >> :
      n \in {0, \h123, \hfff}, a \in {0, 1, 255} }

DrawRoms ==
  { << \h6000 + a, \h6100 + b, \ha000, \hd010 + n >> :
      a \in {0, 56, 57, 63, 64, 255}, b \in {0, 27, 31, 32, 255},
      n \in {0, 1, 5, 15} }

RedrawRoms ==
  { << \ha000, \hd015, \hd015, \hd015, \hd015 >>,
    << \ha000, \hd015, \ha005, \hd015, \hd015, \hd015 >>,
    << \h6038, \h611b, \ha019, \hd015, \hd015, \hd015 >>,
    << \h6003, \ha200, \hd011, \hd011, \hd011 >>,
    << \h6005, \ha00a, \hd005, \h6101, \hd015, \hd015 >>,
    << \ha000, \hdff5, \hdff5, \hdff5 >>,
    << \h603e, \h611e, \ha005, \hd015, \hd015, \hd015 >>,
    << \ha04b, \hd011, \h60f0, \hf055, \hd011 >> }

KeyRoms == { << \hf30a, \h1200 >> }

OperandRoms ==
  JumpRoms \cup SkipRoms \cup AluRoms \cup FontRoms \cup IndexRoms
    \cup DrawRoms \cup RedrawRoms \cup KeyRoms

\* The adapter of the operand programs: a clock that moves by 20 ms between
\* two steps, key 3 pressed or no key.
PlainHw ==
  [deltas |-> {20000000}, jitters |-> {0},
   stops |-> BOOLEAN, keysets |-> {{}, {3}}, rands |-> {0, \hff}]

OperandScenarios == { <<Bytes(ws), PlainHw>> : ws \in OperandRoms }

\* How far the adapter's clock can move before its next reading.
Advances(h, ds) ==
  LET ok == { d \in ds : h.clock + d <= MaxClock }
  IN  IF ok = {} THEN {0} ELSE ok

(* ------------------------------------------------------------------ *)
(* The state machine                                                   *)
(* ------------------------------------------------------------------ *)
\* Chip8::new(hw), before run(rom) is called, for a run drawn from scs.
Start(scs) ==
  /\ v = [r \in 0..(REGS - 1) |-> 0]
  /\ i = 0
  /\ dt = 0
  /\ st = 0
  /\ pc = 0
  /\ sp = 0
  /\ mem = [a \in 0..(MEMS - 1) |-> 0]
  /\ stack = [k \in 0..(STACKS - 1) |-> 0]
  /\ time = << >>
  /\ running = FALSE
  /\ at = "new"
  /\ fault = "none"
  /\ open_calls = << >>
  /\ last_draw = << >>
  /\ overflow_checks \in BOOLEAN
  /\ \E sc \in scs :
       /\ rom = sc[1]
       /\ hw = [cfg |-> sc[2], clock |-> 0, vramsz |-> <<0, 0>>, vram |-> {},
                nsetsize |-> 0, calls |-> << >>]

Init == Start(Scenarios)

\* The adapter's log holds the calls of the step that is being taken.
Begin(c) == [c EXCEPT !.hw.calls = << >>]

Assign(r) ==
  /\ v' = r.v
  /\ i' = r.i
  /\ dt' = r.dt
  /\ st' = r.st
  /\ pc' = r.pc
  /\ sp' = r.sp
  /\ mem' = r.mem
  /\ stack' = r.stack
  /\ time' = r.time
  /\ running' = r.running
  /\ hw' = r.hw
  /\ at' = r.at
  /\ fault' = r.fault
  /\ UNCHANGED <<rom, overflow_checks>>

\* The test of `while self.running` in run().
loop_test(c) ==
  IF Panicked(c) THEN c
  ELSE [c EXCEPT !.at = IF c.running THEN "sched" ELSE "done"]

\* run(): self.setup()
Setup ==
  /\ at = "new"
  /\ Assign([setup(Begin(Self)) EXCEPT !.at = "load"])
  /\ UNCHANGED <<open_calls, last_draw>>

\* run(): self.load(rom), and the first test of the loop
Load ==
  /\ at = "load"
  /\ Assign(loop_test(load(Begin(Self), rom)))
  /\ UNCHANGED <<open_calls, last_draw>>

\* Mutant of Sched: the loop is left as soon as the adapter asks to stop,
\* `if !self.running { break; }` after self.sched().
SchedThenBreak ==
  /\ at = "sched"
  /\ \E stop \in hw.cfg.stops, d \in Advances(hw, hw.cfg.deltas) :
       \E j \in Advances([hw EXCEPT !.clock = @ + d], hw.cfg.jitters) :
         Assign([sched(Begin(Self), stop, d, j)
                   EXCEPT !.at = IF stop THEN "done" ELSE "eval"])
  /\ UNCHANGED <<open_calls, last_draw>>

\* run(): self.sched()
Sched ==
  /\ at = "sched"
  /\ \E stop \in hw.cfg.stops, d \in Advances(hw, hw.cfg.deltas) :
       \E j \in Advances([hw EXCEPT !.clock = @ + d], hw.cfg.jitters) :
         Assign([sched(Begin(Self), stop, d, j) EXCEPT !.at = "eval"])
  /\ UNCHANGED <<open_calls, last_draw>>

\* run(): self.eval()
Eval ==
  /\ at = "eval"
  /\ LET op == IF fetch_ok(Self) THEN decode(inst_at(mem, pc)) ELSE "NONE"
     IN  \E r \in (IF op = "RND" THEN hw.cfg.rands ELSE {0}),
            pressed \in (IF op \in {"SKP", "SKNP"} THEN hw.cfg.keysets ELSE {{}}) :
           LET c == eval(Begin(Self), r, pressed)
           IN  /\ Assign(IF c.at = "eval" THEN [c EXCEPT !.at = "next"] ELSE c)
               /\ open_calls' =
                    IF Panicked(c) THEN open_calls
                    ELSE IF op = "CALL" THEN Append(open_calls, pc)
                    ELSE IF op = "RET"
                    THEN SubSeq(open_calls, 1, Len(open_calls) - 1)
                    ELSE open_calls
               /\ last_draw' =
                    IF op = "DRW" /\ ~Panicked(c)
                    THEN <<inst_at(mem, pc), hw.vram>>
                    ELSE << >>

\* eval(), LD Vx, K: one iteration of the loop of waitkey, or its return
WaitKey ==
  /\ at = "waitkey"
  /\ \E stop \in hw.cfg.stops, d \in Advances(hw, hw.cfg.deltas),
        pressed \in hw.cfg.keysets :
       \E j \in Advances([hw EXCEPT !.clock = @ + d], hw.cfg.jitters) :
         Assign(waitkey(Begin(Self), nib2(inst_at(mem, pc)), stop, d, j, pressed))
  /\ UNCHANGED <<open_calls, last_draw>>

\* run(): self.next(), and the test of the loop
Advance ==
  /\ at = "next"
  /\ Assign(loop_test(next(Begin(Self))))
  /\ UNCHANGED <<open_calls, last_draw>>

Next == Setup \/ Load \/ Sched \/ Eval \/ WaitKey \/ Advance

Spec == Init /\ [][Next]_vars

\* The runs of the operand programs.
OperandInit == Start(OperandScenarios)

OperandSpec == OperandInit /\ [][Next]_vars

\* The run has not ended: run() has neither returned nor panicked.  Every
\* action is enabled exactly at its own position of run(), whatever the
\* adapter answers, so this is ENABLED <<Next>>_vars wherever the step
\* changes the state.
Running == at \notin {"done", "panic"}

\* The run loop is sequential code and the adapter's calls return: the run
\* always takes its next step.  This is weak fairness of Next, WF_vars(Next),
\* written out with Running for ENABLED <<Next>>_vars.  The step from one
\* loop iteration to the next is stated as WF_vars(Advance) as well.
FairSpec ==
  /\ Spec
  /\ []<>(~Running) \/ []<><<Next>>_vars
  /\ WF_vars(Advance)

(* ------------------------------------------------------------------ *)
(* Vocabulary of the properties                                        *)
(* ------------------------------------------------------------------ *)
\* The instruction that an Eval step is about to decode.
AtInst == at = "eval" /\ fetch_ok(Self)
CurInst == inst_at(mem, pc)
CurOp == decode(CurInst)

(* ------------------------------------------------------------------ *)
(* C1                                                                  *)
(* ------------------------------------------------------------------ *)
\* C1: every memory access of the engine (the fetch at PC and PC+1, the
\* I-addressed accesses of DRW, Fx33, Fx55, Fx65) uses an index in
\* [0, 4095].  The engine indexes mem with unmasked 16-bit values; Rust's
\* bounds check turns an index of 4096 or more into the panic recorded here
\* as fault = "mem_index", so the claim is that this panic never happens.
C1_MemIndexInRange == fault # "mem_index"

(* ------------------------------------------------------------------ *)
(* C2                                                                  *)
(* ------------------------------------------------------------------ *)
\* C2: a CALL executed with 16 return addresses on the stack does not stop
\* the engine: it stores its return address in stack slot 0 and execution
\* continues at nnn (PC = nnn - 2 before the advance of the run loop).
C2_SeventeenthCallWraps ==
  [][(AtInst /\ CurOp = "CALL" /\ sp = STACKS)
       => /\ at' = "next"
          /\ stack'[0] = pc
          /\ U16(pc' + 2) = CurInst % 4096]_vars

(* ------------------------------------------------------------------ *)
(* C3                                                                  *)
(* ------------------------------------------------------------------ *)
\* C3: with at most 16 calls open (starting from an empty stack), the stack
\* holds exactly the addresses of the open CALLs and sp counts them; a RET
\* then continues at the address of its matching CALL (the innermost open
\* one) plus 2 once the run loop has advanced, and takes sp down by one, so
\* that d CALLs followed by d RETs bring sp back to where it was.
C3_CallRetSymmetry ==
  [][/\ (AtInst /\ CurOp = "RET" /\ Len(open_calls) \in 1..STACKS)
          => /\ at' = "next"
             /\ U16(pc' + 2) = open_calls[Len(open_calls)] + 2
             /\ sp' = sp - 1
             /\ sp' = Len(open_calls')
     /\ (AtInst /\ CurOp = "CALL" /\ Len(open_calls) < STACKS)
          => /\ at' = "next"
             /\ sp' = sp + 1
             /\ sp' = Len(open_calls')
     /\ (at = "next") => pc' = U16(pc + 2)]_vars

\* 16 nested calls were made and all 16 have returned: the program is in
\* its final loop with the stack pointer back at 0.
C3_Witness ==
  /\ rom = Bytes(CallRom(STACKS))
  /\ v[0] = STACKS
  /\ pc = 514
  /\ at = "eval"
  /\ sp = 0
  /\ open_calls = << >>

(* ------------------------------------------------------------------ *)
(* C4                                                                  *)
(* ------------------------------------------------------------------ *)
\* The adapter's sched() returned true in the step just taken.
StopReported == \E k \in DOMAIN hw.calls : hw.calls[k] = <<"sched", TRUE>>

\* C4: a scheduling step (of the main loop or of the key wait) in which the
\* adapter's step() returns true leaves running false; running, once false
\* after setup, never becomes true again; and from there the run ends:
\* run() returns (at = "done") unless the engine meets a fatal stop, also
\* when no key is ever pressed.
C4_ShutdownEndsRun ==
  /\ [][/\ (\E k \in DOMAIN hw'.calls : hw'.calls[k] = <<"sched", TRUE>>)
             => ~running'
        /\ (at # "new" /\ ~running) => ~running']_vars
  /\ (StopReported ~> (at = "done" \/ at = "panic"))

\* The run was shut down while LD V3, K waited with no key pressed: run()
\* has returned and V3 holds what the stopped wait returned.
C4_Witness ==
  /\ rom = Bytes(<< \hf30a, \hf318, \h1200 >>)
  /\ at = "done"
  /\ ~running
  /\ pc = 514
  /\ v[3] = SPACE

(* ------------------------------------------------------------------ *)
(* C5                                                                  *)
(* ------------------------------------------------------------------ *)
\* A step that runs sched(): of the main loop, or of an iteration of waitkey.
SchedStep == at = "sched" \/ (at = "waitkey" /\ running)

\* The first reading of the clock in the step whose calls h holds (the log
\* of a scheduling step starts sched, clock).
FirstReading(h) == h.calls[2][2]

Dec(n) == IF n > 0 THEN n - 1 ELSE 0

Beeps(h) == Cardinality({ k \in DOMAIN h.calls : h.calls[k] = <<"beep">> })

\* C5: a scheduling step ticks at most once.  With the timestamp unset it
\* records the clock and does not tick; with clock - last >= 1/60 s (in ns:
\* 3 * elapsed >= 50,000,000) it ticks exactly once (DT and ST each down by
\* one, if above 0) and records a new timestamp, however long the elapsed
\* time; with clock - last < 1/60 s it does not tick and keeps the timestamp.
C5_AtMostOneTick ==
  [][SchedStep =>
       LET now == FirstReading(hw')
       IN  IF time = << >>
           THEN time' = <<now>> /\ dt' = dt /\ st' = st
           ELSE IF 3 * (now - time[1]) >= 50000000
           THEN /\ dt' = Dec(dt)
                /\ st' = Dec(st)
                /\ time' # time
                /\ time' = <<hw'.clock>>
                /\ hw'.clock >= now
           ELSE dt' = dt /\ st' = st /\ time' = time]_vars

\* DT was set to 2, then 40 ms (more than two periods) passed before one
\* scheduling step, which took DT to 1 only.
C5_Witness ==
  /\ rom = Bytes(<< \h6002, \hf015, \hf018, \h1206 >>)
  /\ at = "eval"
  /\ pc = 516
  /\ dt = 1
  /\ time = <<40000000>>
  /\ hw.calls[2] = <<"clock", 40000000>>

C7_BeepOnlyWhenSoundTimerExpires ==
  [][Beeps(hw') = IF SchedStep /\ st = 1 /\ st' = 0 THEN 1 ELSE 0]_vars

\* A tick has just taken ST to 0 and the adapter was asked to beep.
C7_Witness ==
  /\ at = "eval"
  /\ st = 0
  /\ Beeps(hw) = 1
  /\ time = <<hw.clock>>

(* ------------------------------------------------------------------ *)
(* C8                                                                  *)
(* ------------------------------------------------------------------ *)
VramCalls == {"vram_get", "vram_set", "vram_size"}

\* C8: vram_setsize is called exactly once in a run (by setup), with the
\* size (64, 32), and before any vram_get, vram_set or vram_size call.
C8_VideoSizeSetOnceFirst ==
  /\ hw.nsetsize = IF at = "new" THEN 0 ELSE 1
  /\ \A k \in DOMAIN hw.calls :
       /\ hw.calls[k][1] = "vram_setsize"
            => /\ hw.calls[k] = <<"vram_setsize", 64, 32>>
               /\ \A m \in 1..(k - 1) : hw.calls[m][1] \notin VramCalls
       /\ hw.calls[k][1] \in VramCalls
            => /\ hw.nsetsize = 1
               /\ \A m \in k..Len(hw.calls) : hw.calls[m][1] # "vram_setsize"

\* A sprite has been drawn (pixels read and written), after the one call of
\* vram_setsize.
C8_Witness ==
  /\ at = "next"
  /\ hw.nsetsize = 1
  /\ hw.vramsz = <<64, 32>>
  /\ hw.vram # {}
  /\ \E k \in DOMAIN hw.calls : hw.calls[k][1] = "vram_set"

(* ------------------------------------------------------------------ *)
(* C9                                                                  *)
(* ------------------------------------------------------------------ *)
\* The instruction words of the opcode table, 0nnn (SYS) left out.
C9_Listed(inst) ==
  LET a == (inst \div 4096) % 16
      n == inst % 16
      kk == inst % 256
  IN  \/ inst \in {\h00e0, \h00ee}
      \/ a \in {1, 2, 3, 4, 6, 7, \ha, \hb, \hc, \hd}
      \/ a \in {5, 9} /\ n = 0
      \/ a = 8 /\ n \in {0, 1, 2, 3, 4, 5, 6, 7, \he}
      \/ a = \he /\ kk \in {\h9e, \ha1}
      \/ a = \hf /\ kk \in {\h07, \h0a, \h15, \h18, \h1e, \h29, \h33, \h55, \h65}

\* C9: decoding a word that is in no entry of the opcode table, or a 0nnn
\* word other than 00E0 and 00EE, is a fatal stop that changes no register,
\* timer, stack slot, memory byte or pixel; and after a fatal stop nothing
\* more is executed.
C9_UnknownOpcodeIsFatal ==
  [][/\ (AtInst /\ ~C9_Listed(CurInst))
          => /\ at' = "panic"
             /\ fault' \in {"invalid_op", "unimplemented"}
             /\ UNCHANGED <<v, i, dt, st, pc, sp, mem, stack, time, running>>
             /\ hw'.vram = hw.vram
             /\ hw'.calls = << >>
     /\ at # "panic"]_vars

\* The program set VA to 5 and then met 8AB8, which is in no table entry.
C9_Witness ==
  /\ rom = Bytes(<< \h6a05, \h8ab8 >>)
  /\ at = "panic"
  /\ fault = "invalid_op"
  /\ pc = 514
  /\ v[10] = 5

(* ------------------------------------------------------------------ *)
(* C10                                                                 *)
(* ------------------------------------------------------------------ *)
FontIntact == \A a \in 0..(Len(CHARBUF) - 1) : mem[a] = CHARBUF[a + 1]

\* C10 as stated: after setup, memory bytes [0, 80) equal the font table in
\* every reachable state, whatever the program does.
C10_FontNeverChanges == at # "new" => FontIntact

\* C10 as amended: setup puts the font table in memory bytes [0, 80), and
\* neither the ROM load nor any instruction other than Fx33 and Fx55 changes
\* those bytes; Fx33 and Fx55 executed with I < 80 do overwrite them.
C10_FontChangedOnlyByStores ==
  [][/\ at = "new" => FontIntact'
     /\ (\E a \in 0..(Len(CHARBUF) - 1) : mem'[a] # mem[a])
          => \/ at = "new"
             \/ AtInst /\ CurOp \in {"LD_B", "LD_I_VX"} /\ i < Len(CHARBUF)]_vars

\* LD [I], V0 with I = 0 has overwritten the first byte of glyph 0.
C10_Witness ==
  /\ rom = Bytes(<< \h60aa, \hf055, \hf065, \h1206 >>)
  /\ at = "next"
  /\ pc = 514
  /\ mem[0] = \haa
  /\ ~FontIntact

(* ------------------------------------------------------------------ *)
(* C11                                                                 *)
(* ------------------------------------------------------------------ *)
\* 512 LD VA, 5   514 JP 512
LoopRom == Bytes(<< \h6a05, \h1200 >>)

\* The run stands between two iterations of the loop of run() (or has left
\* the loop) and n iterations are complete: on the steady clock, which
\* every scheduling step moves by the same amount, the clock reads n times
\* that amount (for n below MaxTicks, where the model's clock stops).
CyclesDone(n) ==
  /\ at \in {"sched", "done"}
  /\ hw.cfg = SteadyHw
  /\ \E d \in hw.cfg.deltas : hw.clock = n * d

\* C11 as stated: with the ROM 6A05 1200, after one scheduling + decode +
\* advance cycle VA = 5 and PC = 512, and VA stays 5 from then on.
C11_LoopAfterOneCycle ==
  /\ [](rom = LoopRom /\ CyclesDone(1) => v[10] = 5 /\ pc = 512)
  /\ [][rom = LoopRom /\ v[10] = 5 => v'[10] = 5]_vars

\* C11 as amended: with the ROM 6A05 1200, after one scheduling + decode +
\* advance cycle VA = 5 and PC = 514; after the second cycle (JP 512)
\* PC = 512; PC is 512 or 514 after every cycle, and VA stays 5.
C11_LoopAfterTwoCycles ==
  /\ [](rom = LoopRom =>
          /\ CyclesDone(0) => v[10] = 0 /\ pc = 512
          /\ CyclesDone(1) => v[10] = 5 /\ pc = 514
          /\ CyclesDone(2) => v[10] = 5 /\ pc = 512
          /\ at \in {"sched", "done"} => pc \in {512, 514})
  /\ [][rom = LoopRom /\ v[10] = 5 => v'[10] = 5]_vars

\* Two cycles of the loop are complete and the third is about to start.
C11_Witness ==
  /\ rom = LoopRom
  /\ CyclesDone(2)
  /\ at = "sched"
  /\ pc = 512
  /\ v[10] = 5

(* ------------------------------------------------------------------ *)
(* C12                                                                 *)
(* ------------------------------------------------------------------ *)
\* The operands of the instruction that is about to be decoded.
CurX == nib2(CurInst)
CurY == nib1(CurInst)
CurKK == CurInst % 256
CurNNN == CurInst % 4096

\* Whether the skip instruction about to be decoded finds its condition to
\* hold; h is the adapter after the step (the log holds the answer of key()).
SkipTaken(h) ==
  CASE CurOp = "SE_KK" -> v[CurX] = CurKK
    [] CurOp = "SNE_KK" -> v[CurX] # CurKK
    [] CurOp = "SE_XY" -> v[CurX] = v[CurY]
    [] CurOp = "SNE_XY" -> v[CurX] # v[CurY]
    [] CurOp = "SKP" -> h.calls = << <<"key", v[CurX], TRUE>> >>
    [] CurOp = "SKNP" -> h.calls = << <<"key", v[CurX], FALSE>> >>
    [] OTHER -> FALSE

SkipOps == {"SE_KK", "SNE_KK", "SE_XY", "SNE_XY", "SKP", "SKNP"}

\* C12: a decode-execute-advance cycle that is not a fatal stop leaves PC at
\* nnn after JP nnn and CALL nnn (0 and 1 included), at the old PC + 4 after
\* a skip instruction whose condition holds, and at the old PC + 2 after a
\* skip whose condition fails and after every other instruction that is not
\* a jump (RET, JP V0).  The cycle is the Eval step, the steps of the key
\* wait (which leave PC alone) and the Advance step, which adds 2.
C12_PcAfterCycle ==
  [][/\ (AtInst /\ at' # "panic") =>
          CASE CurOp \in {"JP", "CALL"} -> U16(pc' + 2) = CurNNN
            [] CurOp \in SkipOps ->
                 U16(pc' + 2) = IF SkipTaken(hw') THEN pc + 4 ELSE pc + 2
            [] CurOp \in {"RET", "JP_V0"} -> TRUE
            [] OTHER -> U16(pc' + 2) = pc + 2
     /\ at = "waitkey" => pc' = pc
     /\ at = "next" => pc' = U16(pc + 2) /\ at' \in {"sched", "done"}]_vars

\* JP 1 was executed and the next cycle fetches at address 1.
C12_Witness ==
  /\ rom = Bytes(<< \h1001 >>)
  /\ at = "eval"
  /\ pc = 1

(* ------------------------------------------------------------------ *)
(* C13                                                                 *)
(* ------------------------------------------------------------------ *)
\* 512 LD V0, 2   514 LD DT, V0   516 LD V3, K   518 JP 518
KeyWaitRom == Bytes(<< \h6002, \hf015, \hf30a, \h1206 >>)

\* The calls of one kind in the log of the step that h comes out of.
CallsOf(h, kind) == SelectSeq(h.calls, LAMBDA e : e[1] = kind)

\* The last key() call of the step was answered "pressed".
KeyFound(h) ==
  LET ks == CallsOf(h, "key")
  IN  Len(ks) > 0 /\ ks[Len(ks)][3]

LastKey(h) == CallsOf(h, "key")[Len(CallsOf(h, "key"))][2]

\* C13: every polling iteration of LD Vx, K makes one scheduling step
\* (one step() call, first in the iteration, and a timer tick when one is
\* due) and then asks for the keys 0, 1, 2, ... in ascending order, never
\* for key 0xF, stopping at the first key reported pressed; the wait
\* completes in that iteration with that key (the smallest pressed one) in
\* Vx, and otherwise goes on, having asked for all of 0x0..0xE, with the
\* registers as they were; and it completes in no other way while the run
\* has not been shut down.
C13_KeyWaitPolls ==
  [][/\ (at = "waitkey" /\ running) =>
          LET ks == CallsOf(hw', "key")
          IN  /\ Len(CallsOf(hw', "sched")) = 1
              /\ hw'.calls[1][1] = "sched"
              /\ (time # << >> /\ FirstReading(hw') - time[1] > TICK_NS)
                   => dt' = Dec(dt) /\ st' = Dec(st)
              /\ \A k \in 1..Len(ks) :
                   /\ ks[k][2] = k - 1
                   /\ ks[k][2] \in 0..\he
                   /\ ks[k][3] => k = Len(ks)
              /\ IF KeyFound(hw')
                 THEN at' = "next" /\ v' = [v EXCEPT ![CurX] = LastKey(hw')]
                 ELSE Len(ks) = 15 /\ at' = "waitkey" /\ v' = v
              /\ pc' = pc
     /\ (AtInst /\ CurOp = "LD_VX_K") => at' = "waitkey" /\ v' = v]_vars

\* LD V3, K has completed with key 3 (of the pressed keys 3 and 9), and DT,
\* which was 1 when the wait began, ran down to 0 during the wait.
C13_Witness ==
  /\ rom = KeyWaitRom
  /\ at = "next"
  /\ pc = 516
  /\ running
  /\ v[3] = 3
  /\ dt = 0
  /\ KeyFound(hw)

(* ------------------------------------------------------------------ *)
(* C14                                                                 *)
(* ------------------------------------------------------------------ *)
\* C14 as stated: when the adapter signals shutdown while LD Vx, K waits,
\* the wait ends with the sentinel 0x20 in Vx, and the run loop then exits
\* without executing another instruction.
C14_StoppedWaitReturnsSpace ==
  [][/\ (at = "waitkey" /\ ~running' /\ at' = "next")
          => v' = [v EXCEPT ![CurX] = SPACE]
     /\ (at = "waitkey" /\ ~running') => at' \in {"waitkey", "next"}
     /\ (at = "next" /\ ~running) => at' = "done"]_vars

\* C14 as amended: when the adapter signals shutdown while LD Vx, K waits,
\* the keys are still polled in that iteration: if one of 0x0..0xE is
\* reported pressed the wait ends with the smallest such key in Vx;
\* otherwise the next test of the loop ends the wait with the sentinel 0x20
\* in Vx, without another adapter call.  Either way the run loop then exits
\* without executing another instruction.
C14_StoppedWaitReturnsSpaceOrKey ==
  [][/\ (at = "waitkey" /\ running /\ ~running') =>
          IF KeyFound(hw')
          THEN at' = "next" /\ v' = [v EXCEPT ![CurX] = LastKey(hw')]
          ELSE at' = "waitkey" /\ v' = v
     /\ (at = "waitkey" /\ ~running) =>
          /\ at' = "next"
          /\ v' = [v EXCEPT ![CurX] = SPACE]
          /\ hw'.calls = << >>
          /\ ~running'
     /\ (at = "next" /\ ~running) => at' = "done" /\ pc' = U16(pc + 2)
     /\ at # "done"]_vars

\* Shutdown was signalled in an iteration of the wait in which key 3 was
\* reported pressed: the wait has ended with 3 in V3.
C14_Witness ==
  /\ rom = KeyWaitRom
  /\ at = "next"
  /\ pc = 516
  /\ ~running
  /\ v[3] = 3
  /\ StopReported
  /\ KeyFound(hw)

(* ------------------------------------------------------------------ *)
(* C15                                                                 *)
(* ------------------------------------------------------------------ *)
\* C15: LD F, Vx sets I = Vx * 5 for every value of Vx in 0..255, without
\* a fatal stop.  The code multiplies in u8: from Vx = 52 on the product
\* overflows, which panics under overflow checks and leaves
\* (Vx * 5) mod 256 in I without them.
C15_FontAddress ==
  [][(AtInst /\ CurOp = "LD_F") => at' = "next" /\ i' = v[CurX] * 5]_vars

(* ------------------------------------------------------------------ *)
(* C16                                                                 *)
(* ------------------------------------------------------------------ *)
\* C16: ADD I, Vx sets I = (I + Vx) mod 4096, and I is in [0, 4095] in
\* every reachable state.  The code adds in u16, wrapping at 65536.
C16_IndexWrapsAt4096 ==
  /\ [][(AtInst /\ CurOp = "ADD_I") => i' = (i + v[CurX]) % MEMS]_vars
  /\ [](i \in 0..(MEMS - 1))

(* ------------------------------------------------------------------ *)
(* C17                                                                 *)
(* ------------------------------------------------------------------ *)
\* What ADD Vx, Vy (o = 4) and SUB Vx, Vy (o = 5) are to leave in VF and Vx.
C17_Flag(o, a, b) ==
  IF o = 4 THEN (IF a + b > 255 THEN 1 ELSE 0) ELSE (IF a >= b THEN 1 ELSE 0)

C17_Result(o, a, b) == IF o = 4 THEN (a + b) % 256 ELSE (a - b) % 256

\* C17: after 8xy4 VF = 1 iff the old Vx + Vy > 255, after 8xy5 VF = 1 iff
\* the old Vx >= Vy, else 0, also when x or y is 0xF; for x # 0xF Vx holds
\* the sum resp. the difference modulo 256; no other register changes.
C17_AddSubFlags ==
  [][(AtInst /\ CurOp \in {"ADD_XY", "SUB"}) =>
       LET o == nib0(CurInst)
           a == v[CurX]
           b == v[CurY]
       IN  /\ at' = "next"
           /\ v'[\hf] = C17_Flag(o, a, b)
           /\ CurX # \hf => v'[CurX] = C17_Result(o, a, b)
           /\ \A r \in 0..(REGS - 1) : r \notin {CurX, \hf} => v'[r] = v[r]]_vars

\* ADD VF, V0 with VF = 255 and V0 = 1: the sum is 0 and VF holds the flag.
C17_Witness ==
  /\ rom = Bytes(<< \h6fff, \h6001, \h8f04 >>)
  /\ at = "next"
  /\ pc = 516
  /\ v[0] = 1
  /\ v[\hf] = 1

(* ------------------------------------------------------------------ *)
(* C18                                                                 *)
(* ------------------------------------------------------------------ *)
\* Bit b (0 is the most significant) of byte is set.
BitSet(byte, b) == (byte \div 2 ^ (7 - b)) % 2 = 1

\* The pixels under the set bits of the n-row sprite at m[a], drawn with
\* its top left corner at (px, py) on a screen it fits in.
SpritePixels(m, a, n, px, py) ==
  { <<px + b, py + r>> : <<r, b>> \in
      { rb \in (0..(n - 1)) \X (0..7) : BitSet(m[a + rb[1]], rb[2]) } }

\* The DRW about to be decoded is the second of two equal DRWs executed in a
\* row (only instructions change mem, I and the registers, and DRW changes
\* VF alone), with x, y # 0xF and the sprite fully inside the 64x32 screen.
SecondOfTwoDraws ==
  /\ AtInst
  /\ CurOp = "DRW"
  /\ last_draw # << >>
  /\ last_draw[1] = CurInst
  /\ CurX # \hf
  /\ CurY # \hf
  /\ hw.vramsz = <<64, 32>>
  /\ v[CurX] + 7 < 64
  /\ v[CurY] + nib0(CurInst) - 1 < 32
  /\ i + nib0(CurInst) <= MEMS

CurSprite == SpritePixels(mem, i, nib0(CurInst), v[CurX], v[CurY])

\* C18 as stated: the second of two equal DRWs in a row leaves every pixel
\* as it was before the first, and VF = 1 iff the sprite has a set bit.
C18_DrawTwiceRestores ==
  [][SecondOfTwoDraws =>
       /\ hw'.vram = last_draw[2]
       /\ v'[\hf] = IF CurSprite # {} THEN 1 ELSE 0]_vars

\* C18 as amended: the second of two equal DRWs in a row leaves every pixel
\* as it was before the first, and VF = 1 iff the sprite has a set bit on a
\* pixel that was off before the first draw (which the first draw lit).
C18_DrawTwiceRestoresFlagOverlap ==
  [][SecondOfTwoDraws =>
       /\ at' = "next"
       /\ hw'.vram = last_draw[2]
       /\ v'[\hf] = IF CurSprite \ last_draw[2] # {} THEN 1 ELSE 0]_vars

\* Glyph 0 was drawn at (0, 0), then glyph 1 twice on top of it: glyph 0 is
\* on the screen again and VF reports the collision of the second draw.
C18_Witness ==
  /\ rom = Bytes(<< \ha000, \hd015, \ha005, \hd015, \hd015, \hd015 >>)
  /\ at = "next"
  /\ pc = 520
  /\ hw.vram = SpritePixels(mem, 0, 5, 0, 0)
  /\ hw.vram # {}
  /\ v[\hf] = 1

(* ------------------------------------------------------------------ *)
(* C19                                                                 *)
(* ------------------------------------------------------------------ *)
\* The pixels under the set bits of the n-row sprite at m[a], drawn from
\* (px, py) on a screen of w by h pixels whose edges wrap around.
WrappedPixels(m, a, n, px, py, w, h) ==
  { <<(px + b) % w, (py + r) % h>> : <<r, b>> \in
      { rb \in (0..(n - 1)) \X (0..7) : BitSet(m[a + rb[1]], rb[2]) } }

\* C19: DRW handles row r, bit b (most significant first) at the pixel
\* ((Vx + b) mod width, (Vy + r) mod height): every vram_get and vram_set
\* call it makes has x < width and y < height; a DRW that is not a fatal
\* stop reads and writes exactly these 8 * n pixels, row by row, writing
\* sprite bit xor pixel, so that the lit pixels change by the wrapped
\* sprite and nothing is clipped.
C19_DrawWraps ==
  [][(AtInst /\ CurOp = "DRW") =>
       LET n == nib0(CurInst)
           w == hw.vramsz[1]
           h == hw.vramsz[2]
           gets == CallsOf(hw', "vram_get")
           sets == CallsOf(hw', "vram_set")
           P == WrappedPixels(mem, i, n, v[CurX], v[CurY], w, h)
       IN  /\ \A k \in DOMAIN gets : gets[k][2] \in 0..(w - 1) /\ gets[k][3] \in 0..(h - 1)
           /\ \A k \in DOMAIN sets : sets[k][2] \in 0..(w - 1) /\ sets[k][3] \in 0..(h - 1)
           /\ at' # "panic" =>
                /\ Len(gets) = 8 * n
                /\ Len(sets) = 8 * n
                /\ \A k \in 1..(8 * n) :
                     LET r == (k - 1) \div 8
                         b == (k - 1) % 8
                         px == (v[CurX] + b) % w
                         py == (v[CurY] + r) % h
                     IN  /\ gets[k] = <<"vram_get", px, py>>
                         /\ sets[k] = <<"vram_set", px, py,
                                        BitSet(mem[i + r], b) # (<<px, py>> \in hw.vram)>>
                /\ hw'.vram = (hw.vram \ P) \cup (P \ hw.vram)]_vars

\* Glyph 0 (F0 90 90 90 F0) was drawn at (63, 0): its first column is at
\* x = 63 and its other columns are at x = 0..6.
C19_Witness ==
  /\ rom = Bytes(<< \h603f, \h6100, \ha000, \hd015 >>)
  /\ at = "next"
  /\ pc = 518
  /\ CallsOf(hw, "vram_get")[8] = <<"vram_get", 6, 0>>
  /\ hw.vram = { <<63, 0>>, <<0, 0>>, <<1, 0>>, <<2, 0>>,
                 <<63, 1>>, <<2, 1>>,
                 <<63, 2>>, <<2, 2>>,
                 <<63, 3>>, <<2, 3>>,
                 <<63, 4>>, <<0, 4>>, <<1, 4>>, <<2, 4>> }

(* ------------------------------------------------------------------ *)
(* C20                                                                 *)
(* ------------------------------------------------------------------ *)
\* What the instruction about to be decoded must have done when the step is
\* over, for the kinds of effect the programs of the model have: a register
\* write, a timer write, a memory write, pixel writes, a fatal stop.
C20_Effect ==
  CASE CurOp = "LD_KK" -> v' = [v EXCEPT ![CurX] = CurKK]
    [] CurOp = "ADD_KK" -> v' = [v EXCEPT ![CurX] = (v[CurX] + CurKK) % 256]
    [] CurOp = "LD_I" -> i' = CurNNN
    [] CurOp = "LD_DT" -> dt' = v[CurX]
    [] CurOp = "LD_ST" -> st' = v[CurX]
    [] CurOp = "LD_B" /\ i + 2 < MEMS ->
         /\ mem'[i] = v[CurX] \div 100
         /\ mem'[i + 1] = (v[CurX] \div 10) % 10
         /\ mem'[i + 2] = v[CurX] % 10
    [] CurOp = "DRW" /\ i + nib0(CurInst) <= MEMS ->
         LET P == WrappedPixels(mem, i, nib0(CurInst), v[CurX], v[CurY], 64, 32)
         IN  hw'.vram = (hw.vram \ P) \cup (P \ hw.vram)
    [] CurOp = "CLS" -> hw'.vram = {}
    [] CurOp \in {"SYS", "INVALID"} -> at' = "panic"
    [] OTHER -> TRUE

\* C20: when step() reports shutdown in a scheduling step of the main loop,
\* the instruction at the current PC is still decoded and executed, once
\* and with its effects (or its fatal stop); LD Vx, K then returns without
\* an iteration; PC is advanced and run() returns; and no scheduling step,
\* so no step() call, follows the one that reported shutdown.
C20_LastInstructionStillRuns ==
  [][/\ (at = "sched" /\ ~running') =>
          at' = "eval" /\ pc' = pc /\ v' = v /\ mem' = mem
     /\ (at = "eval" /\ ~running) =>
          /\ at' \in {"next", "waitkey", "panic"}
          /\ fetch_ok(Self) => C20_Effect
          /\ (fetch_ok(Self) /\ CurOp = "LD_VX_K") <=> at' = "waitkey"
     /\ (at = "waitkey" /\ ~running) => at' = "next"
     /\ (at = "next" /\ ~running) => at' = "done" /\ pc' = U16(pc + 2)
     /\ (at \notin {"new", "load"} /\ ~running) =>
          /\ CallsOf(hw', "sched") = << >>
          /\ ~running'
          /\ at' # "sched"
     /\ at # "done"]_vars

\* step() reported shutdown in the first scheduling step of the program
\* 6A05 1200: LD VA, 5 was executed, PC was advanced, and run() returned.
C20_Witness ==
  /\ rom = LoopRom
  /\ at = "done"
  /\ CyclesDone(1)
  /\ ~running
  /\ v[10] = 5
  /\ pc = 514

====
